---- MODULE Spec2Model ----
(***************************************************************************)
(* The latest-reading reconciler of the irrigation dashboard:              *)
(* src/src/hooks/useRealtimeDevices.ts (useRealtimeDevices), driven by the *)
(* session gate of src/src/App.tsx.  The backend's readings table, its     *)
(* change-notification transport and the react-query cache entries of the  *)
(* two queries are the state; one action per callback of the hook.         *)
(***************************************************************************)
EXTENDS Integers, Sequences, FiniteSets, TLC

(* ------------------------------ bounds -------------------------------- *)
\* rows ever inserted into the readings table
MaxRows == 2

(* --------------------------- value encodings -------------------------- *)
\* A created_at string is modelled by the instant it denotes, in ms; NoTs is
\* the absent field (undefined).  NaN is the time value of an Invalid Date.
NoTs == 0
NaN == -1
\* The absent device_id (undefined), as a Map key.
NoId == "undefined"
\* The absent reading id.
NoRowId == 0

\* The devices table (read-only for this program): id, esp_id, name.  Names
\* are compared through their collation rank.
DeviceTable ==
  { [id |-> "a", esp_id |-> "esp-a", name |-> "Zone 2"],
    [id |-> "b", esp_id |-> "esp-b", name |-> "Zone 1"] }

NameRank(name) == IF name = "Zone 1" THEN 1 ELSE 2

KnownIds == { d.id : d \in DeviceTable }
\* device_id values a row of the readings table may carry: the listed devices
\* and one device that the devices query does not return.
RowDeviceIds == KnownIds \cup {"z"}

\* The instants a row's created_at may denote.
Times == 1..MaxRows

\* Reading (src/src/lib/types.ts), without the measurement channels.
Reading(id, device_id, created_at) ==
  [id |-> id, device_id |-> device_id, created_at |-> created_at]

\* payload.new of a DELETE event: an object with no fields.
EmptyRow == Reading(NoRowId, NoId, NoTs)

VARIABLES
  store,            \* the readings table of the backend: a set of Readings
  nextId,           \* the id the next inserted row gets
  enabled,          \* App's authed state, the hook's argument
  devicesData,      \* devicesQuery.data
  devicesError,     \* devicesQuery.error
  readingsData,     \* readingsQuery.data (cache entry ["readings", ids])
  readingsError,    \* readingsQuery.error
  fetch,            \* the readings queryFn in flight
  subscriptionRef,  \* subscriptionRef.current and what its callback captured
  channels,         \* the number of channels open on the supabase client
  effect,           \* what the last committed render of the hook saw (the
                    \* effect's dependencies), and whether the effect
                    \* returned its cleanup
  card,             \* the last render of a DeviceCard: its props, the clock
                    \* it read, and what it showed
  chart,            \* the last render of a DeviceChartDialog: the history it
                    \* was given, the browser's zone, and its chartData
  dialog,           \* the last run of ExportCSVDialog: its form state, the
                    \* browser's zone, the table it queried, and its outcome
  login             \* App's sessionChecked, the backend's session for this
                    \* client, and the state of the mounted Login form

\* The state of useRealtimeDevices and of the backend it talks to.
hook == << store, nextId, enabled,
           devicesData, devicesError, readingsData, readingsError, fetch,
           subscriptionRef, channels, effect >>

\* The state of the components that render or export readings.
views == << card, chart, dialog, login >>

vars == << store, nextId, enabled,
           devicesData, devicesError, readingsData, readingsError, fetch,
           subscriptionRef, channels, effect, card, chart, dialog, login >>

(* ------------------------------ JS Map -------------------------------- *)
EmptyMap == [k \in {} |-> EmptyRow]
MapHas(m, k) == k \in DOMAIN m
MapSet(m, k, v) == [x \in (DOMAIN m) \cup {k} |-> IF x = k THEN v ELSE m[x]]
MapDelete(m, k) == [x \in (DOMAIN m) \ {k} |-> m[x]]

\* A query's data: absent (undefined) or present.
Undefined(empty) == [defined |-> FALSE, value |-> empty]
Defined(v) == [defined |-> TRUE, value |-> v]

(* ------------------------------- Dates -------------------------------- *)
\* new Date(created_at).valueOf(): the instant of a timestamp string, NaN for
\* a missing one.
DateOf(created_at) == IF created_at = NoTs THEN NaN ELSE created_at

\* The comparison with its operands swapped.
DateLt(x, y) == x # NaN /\ y # NaN /\ x < y

\* x > y on two Dates: false whenever either is an Invalid Date.
DateGt(x, y) == x # NaN /\ y # NaN /\ x > y

(* ------------------------- backend queries ---------------------------- *)
Perms(S) ==
  { s \in [1..Cardinality(S) -> S] : \A i, j \in DOMAIN s : s[i] = s[j] => i = j }

\* The devices query without its order clause.
DevicesUnordered == Perms(DeviceTable)

\* from("devices").select("id, esp_id, name").order("name", {ascending: true}):
\* the orders in which the backend may return the table.
DevicesOrderedByName ==
  { s \in Perms(DeviceTable) :
      \A i, j \in DOMAIN s : i < j => NameRank(s[i].name) <= NameRank(s[j].name) }

\* The readings query with the order ascending.
SelectOldest(rows, id) ==
  LET mine == { r \in rows : r.device_id = id } IN
  IF mine = {} THEN { << >> }
  ELSE { << r >> : r \in { q \in mine : \A o \in mine : q.created_at <= o.created_at } }

\* from("readings").select(...).eq("device_id", id)
\*   .order("created_at", {ascending: false}).limit(1):
\* the results the backend may give on table `rows`.
SelectLatest(rows, id) ==
  LET mine == { r \in rows : r.device_id = id } IN
  IF mine = {} THEN { << >> }
  ELSE { << r >> : r \in { q \in mine : \A o \in mine : o.created_at <= q.created_at } }

(* --------------------- useRealtimeDevices: pure parts ----------------- *)
\* Updater without the "only if it's the latest" guard.
UpdaterNoGuard(oldReadings, payload) ==
  IF ~oldReadings.defined THEN oldReadings
  ELSE
    IF payload.eventType \in {"INSERT", "UPDATE"}
    THEN Defined(MapSet(oldReadings.value, payload.new.device_id, payload.new))
    ELSE Defined(oldReadings.value)

\* Updater that evicts the entry when the event is not newer than it.
UpdaterEvict(oldReadings, payload) ==
  IF ~oldReadings.defined THEN oldReadings
  ELSE
    LET newMap == oldReadings.value IN
    IF payload.eventType \in {"INSERT", "UPDATE"}
    THEN LET newReading == payload.new
             key == newReading.device_id
         IN IF \/ ~MapHas(newMap, key)
               \/ DateGt(DateOf(newReading.created_at), DateOf(newMap[key].created_at))
            THEN Defined(MapSet(newMap, key, newReading))
            ELSE Defined(MapDelete(newMap, key))
    ELSE Defined(newMap)

\* Updater that starts from an empty Map instead of a copy of the old one.
UpdaterNoCopy(oldReadings, payload) ==
  IF ~oldReadings.defined THEN oldReadings
  ELSE
    LET newMap == EmptyMap IN
    IF payload.eventType \in {"INSERT", "UPDATE"}
    THEN LET newReading == payload.new
             key == newReading.device_id
         IN IF \/ ~MapHas(oldReadings.value, key)
               \/ DateGt(DateOf(newReading.created_at),
                         DateOf(oldReadings.value[key].created_at))
            THEN Defined(MapSet(newMap, key, newReading))
            ELSE Defined(newMap)
    ELSE Defined(newMap)

\* Updater that clears the entry whose reading a DELETE event names.
UpdaterDeleteClears(oldReadings, payload) ==
  IF ~oldReadings.defined THEN oldReadings
  ELSE
    LET newMap == oldReadings.value IN
    IF payload.eventType \in {"INSERT", "UPDATE"}
    THEN LET newReading == payload.new
             key == newReading.device_id
         IN IF \/ ~MapHas(newMap, key)
               \/ DateGt(DateOf(newReading.created_at), DateOf(newMap[key].created_at))
            THEN Defined(MapSet(newMap, key, newReading))
            ELSE Defined(newMap)
    ELSE Defined([k \in { x \in DOMAIN newMap : newMap[x].id # payload.old.id } |-> newMap[k]])

\* Updater that starts a mapping when the cache entry has none.
UpdaterPopulates(oldReadings, payload) ==
  LET newMap == IF oldReadings.defined THEN oldReadings.value ELSE EmptyMap IN
  IF payload.eventType \in {"INSERT", "UPDATE"}
  THEN LET newReading == payload.new
           key == newReading.device_id
       IN IF \/ ~MapHas(newMap, key)
             \/ DateGt(DateOf(newReading.created_at), DateOf(newMap[key].created_at))
          THEN Defined(MapSet(newMap, key, newReading))
          ELSE Defined(newMap)
  ELSE Defined(newMap)

\* The updater given to queryClient.setQueryData by the postgres_changes
\* callback: the next cache value for the previous one and a payload.
Updater(oldReadings, payload) ==
  IF ~oldReadings.defined THEN oldReadings
  ELSE
    LET newMap == oldReadings.value IN
    IF payload.eventType \in {"INSERT", "UPDATE"}
    THEN LET newReading == payload.new
             key == newReading.device_id
         IN IF \/ ~MapHas(newMap, key)
               \/ DateGt(DateOf(newReading.created_at), DateOf(newMap[key].created_at))
            THEN Defined(MapSet(newMap, key, newReading))
            ELSE Defined(newMap)
    ELSE Defined(newMap)

\* Map objects: a heap maps each reference to the Map it holds; a cache
\* entry without data holds no reference.
NoRef == 0

\* new Map(oldReadings): a fresh object holding a copy of the entries.
NewMap(heap, ref) ==
  LET fresh == Cardinality(DOMAIN heap) + 1
  IN [heap |-> heap @@ (fresh :> heap[ref]), ref |-> fresh]

\* The updater working on the Map it was given instead of a copy.
UpdaterInPlace(heap, oldReadings, payload) ==
  IF oldReadings = NoRef THEN [heap |-> heap, ref |-> oldReadings]
  ELSE
    LET copy == [heap |-> heap, ref |-> oldReadings]
        newMap == copy.ref
    IN IF payload.eventType \in {"INSERT", "UPDATE"}
       THEN LET newReading == payload.new
                key == newReading.device_id
                existing == copy.heap[newMap]
            IN IF \/ ~MapHas(existing, key)
                  \/ DateGt(DateOf(newReading.created_at), DateOf(existing[key].created_at))
               THEN [heap |-> [copy.heap EXCEPT ![newMap] = MapSet(existing, key, newReading)],
                     ref |-> newMap]
               ELSE copy
       ELSE copy

\* The updater on objects: which Map object it returns and what it does to
\* the objects of the heap (newMap.set writes to the object newMap).
UpdaterObjects(heap, oldReadings, payload) ==
  IF oldReadings = NoRef THEN [heap |-> heap, ref |-> oldReadings]
  ELSE
    LET copy == NewMap(heap, oldReadings)
        newMap == copy.ref
    IN IF payload.eventType \in {"INSERT", "UPDATE"}
       THEN LET newReading == payload.new
                key == newReading.device_id
                existing == copy.heap[newMap]
            IN IF \/ ~MapHas(existing, key)
                  \/ DateGt(DateOf(newReading.created_at), DateOf(existing[key].created_at))
               THEN [heap |-> [copy.heap EXCEPT ![newMap] = MapSet(existing, key, newReading)],
                     ref |-> newMap]
               ELSE copy
       ELSE copy

\* latestById as results.forEach builds it from the resolved per-device
\* queries (none of which carries an error).
RECURSIVE LatestById(_, _)
LatestById(results, n) ==
  IF n = 0 THEN EmptyMap
  ELSE LET m == LatestById(results, n - 1)
           data == results[n].data
       IN IF Len(data) > 0 THEN MapSet(m, data[1].device_id, data[1]) ELSE m

\* devices: the DeviceLatest list the hook returns; latest is << >> for null.
Devices(dd, rd) ==
  IF ~dd.defined THEN << >>
  ELSE [ i \in DOMAIN dd.value |->
           [ id |-> dd.value[i].id,
             esp_id |-> dd.value[i].esp_id,
             name |-> dd.value[i].name,
             latest |-> IF rd.defined /\ MapHas(rd.value, dd.value[i].id)
                        THEN << rd.value[dd.value[i].id] >>
                        ELSE << >> ] ]

snapshot == Devices(devicesData, readingsData)

\* error: what the hook returns as its error state.
error == devicesError \/ readingsError

Idle == [active |-> FALSE, results |-> << >>]

(* ------------------------------ DeviceCard ---------------------------- *)
\* created_at of the readings a card is given, in ms
MaxCardStamp == 3

\* The freshness threshold, and the refetch interval of the readings query.
StaleAfterMs == 12500
RefetchIntervalMs == 120000

CardStamps == 1..MaxCardStamp

\* The DeviceLatest props a card may be given: a device of the table with no
\* latest, or with a latest whose created_at may be missing.
CardDevices ==
  UNION { { [id |-> d.id, esp_id |-> d.esp_id, name |-> d.name, latest |-> l] :
              l \in {<< >>} \cup { << Reading(1, d.id, t) >> : t \in CardStamps \cup {NoTs} } } :
          d \in DeviceTable }

\* What Date.now() may return when a card renders: before, at and after the
\* reading's instant, around the threshold, and a refetch interval later.
Clock ==
  {0} \cup { t + age : t \in CardStamps,
                       age \in {0, StaleAfterMs - 1, StaleAfterMs,
                                StaleAfterMs + 1, RefetchIntervalMs} }

\* stale with the comparison >= in place of >.
staleAtThreshold(device, now) ==
  IF device.latest = << >> THEN TRUE
  ELSE LET ts == DateOf(device.latest[1].created_at) IN
       ts # NaN /\ now - ts >= StaleAfterMs

\* const ts = r ? new Date(r.created_at) : null;
\* const stale = ts ? Date.now() - ts.getTime() > 12500 : true;
\* (a Date object is truthy also when invalid; NaN > 12500 is false)
stale(device, now) ==
  IF device.latest = << >> THEN TRUE
  ELSE LET ts == DateOf(device.latest[1].created_at) IN
       ts # NaN /\ now - ts > StaleAfterMs

NoCard ==
  [rendered |-> FALSE,
   device |-> [id |-> "", esp_id |-> "", name |-> "", latest |-> << >>],
   now |-> 0, stale |-> TRUE]

(* --------------------------- DeviceChartDialog ------------------------ *)
\* readings in the history a chart is given
MaxHistory == 2

\* JS Date: an instant is its time value in ms; the fields of a local time
\* are those of the instant shifted by the zone's offset from UTC.
MinuteMs == 60000
HourMs == 3600000
DayMs == 86400000

\* The width of a bucket, in hours.
BucketHours == 3

\* The offsets from UTC of the zones the browser may be in (none of them with
\* daylight saving): New York's winter time, UTC, India, Kuala Lumpur.
TimezoneOffsets == { 0 - 5 * HourMs, 0, 5 * HourMs + 30 * MinuteMs, 8 * HourMs }

\* date.getHours()
getHours(t, tz) == ((t + tz) % DayMs) \div HourMs

\* date.setHours(hours, min, sec, ms): the instant of the same local day with
\* these local fields.
setHours(t, tz, hours, min, sec, ms) ==
  (t + tz) - ((t + tz) % DayMs) + hours * HourMs + min * MinuteMs + sec * 1000 + ms - tz

\* date.toISOString(): the UTC fields of the instant (the date as a day
\* number).
toISOString(t) ==
  [date |-> t \div DayMs,
   hours |-> (t % DayMs) \div HourMs,
   minutes |-> (t % HourMs) \div MinuteMs,
   seconds |-> (t % MinuteMs) \div 1000,
   ms |-> t % 1000]

\* new Date(isoString).getTime()
DateParse(iso) ==
  iso.date * DayMs + iso.hours * HourMs + iso.minutes * MinuteMs
    + iso.seconds * 1000 + iso.ms

\* A measurement channel is << >> (null) or << n >>.
ChannelNames ==
  << "soil_1", "soil_2", "soil_3", "soil_4", "temp_1", "hum_1", "temp_2", "hum_2" >>

\* A row of the readings table with its channels (select("*")).
HistoryReading(created_at, ch) ==
  [id |-> 1, device_id |-> "a", created_at |-> created_at,
   soil_1 |-> ch.soil_1, soil_2 |-> ch.soil_2, soil_3 |-> ch.soil_3, soil_4 |-> ch.soil_4,
   temp_1 |-> ch.temp_1, hum_1 |-> ch.hum_1, temp_2 |-> ch.temp_2, hum_2 |-> ch.hum_2]

Channels(s1, s2, s3, s4, t1, h1, t2, h2) ==
  [soil_1 |-> s1, soil_2 |-> s2, soil_3 |-> s3, soil_4 |-> s4,
   temp_1 |-> t1, hum_1 |-> h1, temp_2 |-> t2, hum_2 |-> h2]

\* The channel values a row may carry: none; two soil channels only; a zero
\* and a temperature below zero; values whose mean has a 5 in its second
\* decimal place.
ChannelRows ==
  { Channels(<< >>, << >>, << >>, << >>, << >>, << >>, << >>, << >>),
    Channels(<<70>>, <<80>>, << >>, << >>, << >>, << >>, << >>, << >>),
    Channels(<<0>>, << >>, << >>, << >>, <<0 - 3>>, <<1>>, <<2>>, <<2>>),
    Channels(<<1>>, <<2>>, <<2>>, <<2>>, <<25>>, << >>, << >>, << >>) }

\* created_at of the rows of a history: instants of the second day of the
\* epoch at, just before and after hours divisible by 3, and at the end of
\* the day.
HistoryTimes ==
  { DayMs, DayMs + 3 * HourMs - 1, DayMs + 3 * HourMs,
    DayMs + 4 * HourMs + 30 * MinuteMs + 1, 2 * DayMs - 1 }

HistoryRows == { HistoryReading(t, ch) : t \in HistoryTimes, ch \in ChannelRows }

\* The histories useQuery may hand to the dialog, in any order.
Histories == UNION { [1..n -> HistoryRows] : n \in 0..MaxHistory }

\* The key of the 3-hour period of a reading:
\*   const date = new Date(reading.created_at);
\*   const hours = Math.floor(date.getHours() / 3) * 3;
\*   date.setHours(hours, 0, 0, 0); const key = date.toISOString();
PeriodKey(reading, tz) ==
  LET date == DateOf(reading.created_at)
      hours == (getHours(date, tz) \div BucketHours) * BucketHours
  IN toISOString(setHours(date, tz, hours, 0, 0, 0))

\* groupedData after readings.forEach over the first n readings: the entries
\* of the Map in insertion order.
RECURSIVE GroupedData(_, _, _)
GroupedData(readings, tz, n) ==
  IF n = 0 THEN << >>
  ELSE LET g == GroupedData(readings, tz, n - 1)
           key == PeriodKey(readings[n], tz)
       IN IF \E i \in DOMAIN g : g[i].key = key
          THEN [ i \in DOMAIN g |->
                   IF g[i].key = key
                   THEN [g[i] EXCEPT !.readings = Append(@, readings[n])]
                   ELSE g[i] ]
          ELSE Append(g, [key |-> key, readings |-> << readings[n] >>])

\* readings.flatMap(r => [r.c1, r.c2, ...]).filter(val => val !== null &&
\* val !== undefined): the present values of the channels `names`.
RECURSIVE Values(_, _)
Values(readings, names) ==
  IF readings = << >> THEN << >>
  ELSE LET r == Head(readings)
           cells == [ i \in DOMAIN names |-> r[names[i]] ]
           present == SelectSeq(cells, LAMBDA c : c # << >>)
       IN [ i \in DOMAIN present |-> present[i][1] ] \o Values(Tail(readings), names)

\* values.reduce((sum, val) => sum + val, 0)
RECURSIVE Sum(_)
Sum(values) == IF values = << >> THEN 0 ELSE Head(values) + Sum(Tail(values))

\* The average that is 0 when there is no value.
averageOrZero(values) ==
  IF Len(values) > 0
  THEN << (20 * Sum(values) + Len(values)) \div (2 * Len(values)) >>
  ELSE << 0 >>

\* values.length > 0 ? Math.round((sum / values.length) * 10) / 10 : undefined.
\* The result is held in tenths: << 750 >> is 75.0; << >> is undefined.
\* Math.round(x) is floor(x + 1/2).
average(values) ==
  IF Len(values) > 0
  THEN << (20 * Sum(values) + Len(values)) \div (2 * Len(values)) >>
  ELSE << >>

\* The point that groupedData.forEach pushes for one entry (without its
\* display label).
ChartDataPoint(entry) ==
  [datetime |-> DateParse(entry.key),
   avgSoilMoisture |-> average(Values(entry.readings, << "soil_1", "soil_2", "soil_3", "soil_4" >>)),
   avgTemperature |-> average(Values(entry.readings, << "temp_1", "temp_2" >>)),
   avgHumidity |-> average(Values(entry.readings, << "hum_1", "hum_2" >>))]

\* The result left in the order of the Map's entries.
Unsorted(result) == result

\* result.sort((a, b) => a.datetime.getTime() - b.datetime.getTime()): a
\* stable sort, as an insertion sort.
RECURSIVE SortByDatetime(_)
SortByDatetime(result) ==
  IF result = << >> THEN << >>
  ELSE LET sorted == SortByDatetime(SubSeq(result, 1, Len(result) - 1))
           x == result[Len(result)]
           before == SelectSeq(sorted, LAMBDA y : y.datetime <= x.datetime)
           after == SelectSeq(sorted, LAMBDA y : y.datetime > x.datetime)
       IN before \o << x >> \o after

\* chartData for the readings of the query and the browser's zone.
ChartData(readings, tz) ==
  LET groupedData == GroupedData(readings, tz, Len(readings))
      result == [ i \in DOMAIN groupedData |-> ChartDataPoint(groupedData[i]) ]
  IN SortByDatetime(result)

NoChart ==
  [rendered |-> FALSE, readings |-> << >>, tz |-> 0,
   groupedData |-> << >>, chartData |-> << >>]

(* ----------------------------- ExportCSVDialog ------------------------ *)
\* rows of the readings table when an export runs
MaxExportRows == 2

\* In this part a string is the sequence of its pieces, cut at its commas and
\* line breaks, which are pieces of their own: "" is << >>.  Instants are in
\* ms since 2025-01-01T00:00:00.000Z, and the date string "2025-01-02" of a
\* date input is << 1 >>, its day since then.
Comma == ","
LineBreak == "\n"

\* The devices the export's join sees: those of the dashboard and one whose
\* name has a comma.
ExportDevices ==
  { [id |-> "a", esp_id |-> << "esp-a" >>, name |-> << "Zone 2" >>],
    [id |-> "b", esp_id |-> << "esp-b" >>, name |-> << "Zone 1" >>],
    [id |-> "c", esp_id |-> << "esp-c" >>, name |-> << "Zone 3", Comma, " north" >>] }

\* zones: the distinct names the zones query returns.
Zones == { d.name : d \in ExportDevices }

\* The values of the date inputs: empty, or a day.
ExportDays == { << >>, << 1 >>, << 2 >> }

\* The zones the browser may be in: New York's winter time, UTC, Kuala Lumpur.
ExportOffsets == { 0 - 5 * HourMs, 0, 8 * HourMs }

\* const KL_TZ = "Asia/Kuala_Lumpur": its offset from UTC.
KL_TZ == 8 * HourMs

\* created_at of the rows an export may meet: around the first and the last
\* instant of days 1 and 2 in the three zones, and a noon.
ExportTimes ==
  { DayMs - 8 * HourMs - 1, DayMs - 8 * HourMs, DayMs, DayMs + 12 * HourMs,
    2 * DayMs + 5 * HourMs - 1, 3 * DayMs - 8 * HourMs - 1, 3 * DayMs - 8 * HourMs }

\* The channel values of those rows: none, or some with a zero.
ExportChannelRows ==
  { Channels(<< >>, << >>, << >>, << >>, << >>, << >>, << >>, << >>),
    Channels(<<0>>, << >>, << >>, << >>, <<0 - 3>>, <<1>>, <<2>>, <<2>>) }

\* ReadingExportRow: a row of readings with its device embedded.
ReadingExportRow(created_at, d, ch) ==
  [created_at |-> created_at, device_id |-> d.id,
   devices |-> [esp_id |-> d.esp_id, name |-> d.name],
   soil_1 |-> ch.soil_1, soil_2 |-> ch.soil_2, soil_3 |-> ch.soil_3, soil_4 |-> ch.soil_4,
   temp_1 |-> ch.temp_1, hum_1 |-> ch.hum_1, temp_2 |-> ch.temp_2, hum_2 |-> ch.hum_2]

ExportRows ==
  { ReadingExportRow(t, d, ch) :
      t \in ExportTimes, d \in ExportDevices, ch \in ExportChannelRows }

\* The contents the readings table may have when an export runs.
RECURSIVE TablesUpTo(_)
TablesUpTo(n) ==
  IF n = 0 THEN { {} }
  ELSE LET smaller == TablesUpTo(n - 1)
       IN smaller \cup { T \cup {r} : T \in smaller, r \in ExportRows }

ExportTables == TablesUpTo(MaxExportRows)

CSV_COLUMNS ==
  << "date", "time", "esp_id", "name", "soil_1", "soil_2", "soil_3", "soil_4",
     "temp_1", "hum_1", "temp_2", "hum_2" >>

\* toUtcIso(s, inclusiveEnd) in a browser of zone tz: << >> for null.  A date
\* string without a time is parsed as UTC midnight; setHours sets local
\* fields.
toUtcIso(s, inclusiveEnd, tz) ==
  IF s = << >> THEN << >>
  ELSE LET d == s[1] * DayMs IN
       IF inclusiveEnd
       THEN << toISOString(setHours(d, tz, 23, 59, 59, 999)) >>
       ELSE << toISOString(setHours(d, tz, 0, 0, 0, 0)) >>

\* The orders of a set of rows with created_at ascending.
AscendingOrders(rows) ==
  { q \in Perms(rows) :
      \A i, j \in DOMAIN q : i < j => q[i].created_at <= q[j].created_at }

\* from("readings").select(..., devices!inner(...)).gte("created_at", startIso)
\*   .lte("created_at", endIso).order("created_at", {ascending: true}), and
\*   .eq("devices.name", zone) if (zone): the answers the backend may give.
ExportQuery(table, startIso, endIso, zone) ==
  AscendingOrders(
    { r \in table :
        /\ r.created_at >= DateParse(startIso)
        /\ r.created_at <= DateParse(endIso)
        /\ zone # << >> => r.devices.name = zone })

Pad2(n) == IF n < 10 THEN "0" \o ToString(n) ELSE ToString(n)

\* formatKLDateTimeParts(iso): the date and the time of day (no seconds) of
\* the instant in Kuala Lumpur, for instants of January 2025.
formatKLDateTimeParts(iso) ==
  LET local == iso + KL_TZ IN
  [date |-> << "2025-01-" \o Pad2((local \div DayMs) + 1) >>,
   time |-> << Pad2((local % DayMs) \div HourMs) \o ":"
                 \o Pad2((local % HourMs) \div MinuteMs) >>]

\* The CsvRow of a fetched row.
CsvRow(r) ==
  [date |-> formatKLDateTimeParts(r.created_at).date,
   time |-> formatKLDateTimeParts(r.created_at).time,
   esp_id |-> r.devices.esp_id,
   name |-> r.devices.name,
   soil_1 |-> r.soil_1, soil_2 |-> r.soil_2, soil_3 |-> r.soil_3, soil_4 |-> r.soil_4,
   temp_1 |-> r.temp_1, hum_1 |-> r.hum_1, temp_2 |-> r.temp_2, hum_2 |-> r.hum_2]

TextColumns == { "date", "time", "esp_id", "name" }

\* r[k] || "": a channel that is null or 0 becomes "".
FieldOr(r, k) ==
  IF k \in TextColumns THEN r[k]
  ELSE IF r[k] = << >> \/ r[k] = << 0 >> THEN << >> ELSE << ToString(r[k][1]) >>

\* r[k] ?? "" as join renders it: a text as it is, a number by its digits, a
\* null channel as "".
Field(r, k) ==
  IF k \in TextColumns THEN r[k]
  ELSE IF r[k] = << >> THEN << >> ELSE << ToString(r[k][1]) >>

\* array.join(sep)
RECURSIVE Join(_, _)
Join(strings, sep) ==
  IF strings = << >> THEN << >>
  ELSE IF Len(strings) = 1 THEN strings[1]
  ELSE strings[1] \o << sep >> \o Join(Tail(strings), sep)

\* The csv text of the rows.
Csv(rows) ==
  Join(<< Join([ k \in DOMAIN CSV_COLUMNS |-> << CSV_COLUMNS[k] >> ], Comma) >>
         \o [ i \in DOMAIN rows |->
                Join([ k \in DOMAIN CSV_COLUMNS |-> Field(rows[i], CSV_COLUMNS[k]) ], Comma) ],
       LineBreak)

NoDialog ==
  [open |-> FALSE, start |-> << >>, end |-> << >>, zone |-> << >>, err |-> "",
   queried |-> FALSE, tz |-> 0, table |-> {}, data |-> << >>, csv |-> << >>]

(* ================================ Login =============================== *)
\* The sign-in attempts a behaviour of the login specification may make.
MaxSignIns == 2

\* err === null.
NoErr == "null"

\* error.message of a rejected signInWithPassword.
AuthErrorMessages == { "Invalid login credentials", "Email not confirmed" }

\* Before getSession has resolved: no session, the form (not mounted yet) in
\* its initial state, onAuthed never called.
NoLogin ==
  [sessionChecked |-> FALSE, session |-> FALSE, err |-> NoErr,
   loading |-> FALSE, signIns |-> 0, onAuthed |-> 0]


(* --------------------------------- Init ------------------------------- *)
\* After App's first render: no session yet, nothing cached, the effect has
\* run once with enabled = false.
Init ==
  /\ store = {}
  /\ nextId = 1
  /\ enabled = FALSE
  /\ devicesData = Undefined(<< >>)
  /\ devicesError = FALSE
  /\ readingsData = Undefined(EmptyMap)
  /\ readingsError = FALSE
  /\ fetch = Idle
  /\ subscriptionRef = [current |-> FALSE, captured |-> FALSE]
  /\ channels = 0
  /\ effect = [enabled |-> FALSE, loaded |-> FALSE, cleanup |-> FALSE]
  /\ card = NoCard
  /\ chart = NoChart
  /\ dialog = NoDialog
  /\ login = NoLogin

(* ------------------------- backend and transport ---------------------- *)
\* The instants the ingestion path may stamp on the next row: its clock does
\* not run backwards, and two rows may carry the same instant.
NextStamps(rows) ==
  { u \in Times :
      /\ \A r \in rows : r.created_at <= u
      /\ u = 1 \/ \E r \in rows : r.created_at >= u - 1 }

\* The ingestion path inserts a row, for a listed device or another one.
StoreInsert ==
  /\ nextId <= MaxRows
  /\ \E d \in RowDeviceIds, t \in NextStamps(store) :
       store' = store \cup {Reading(nextId, d, t)}
  /\ nextId' = nextId + 1
  /\ UNCHANGED << enabled, devicesData, devicesError,
                  readingsData, readingsError, fetch, subscriptionRef, channels, effect >>
  /\ UNCHANGED views

\* A row is deleted.
StoreDelete ==
  /\ \E row \in store :
       store' = store \ {row}
  /\ UNCHANGED << nextId, enabled, devicesData, devicesError,
                  readingsData, readingsError, fetch, subscriptionRef, channels, effect >>
  /\ UNCHANGED views

\* What the transport hands to the client for a row: the row, or the row
\* with device_id or created_at missing.
Payloads(row) ==
  { row, [row EXCEPT !.device_id = NoId], [row EXCEPT !.created_at = NoTs] }

Event(type, new, old) == [eventType |-> type, new |-> new, old |-> old]

\* The change events the transport can deliver now.  An event is delivered
\* any time after its change was committed, in any order, any number of times
\* or never: INSERT for a row that was inserted, UPDATE for a row that was
\* rewritten (with the values it has), DELETE for a row that is gone, of
\* which the event carries the primary key.
Deliverable ==
  { Event(type, new, EmptyRow) :
      type \in {"INSERT", "UPDATE"},
      new \in UNION { Payloads(row) : row \in store } }
  \cup { Event("DELETE", EmptyRow, Reading(id, NoId, NoTs)) :
           id \in (1..(nextId - 1)) \ { row.id : row \in store } }

(* ------------------------------ App: session -------------------------- *)
\* setAuthed(b): getSession's result, an auth state change, or Login's
\* onAuthed.  The hook is rendered with enabled = authed.
SetAuthed ==
  /\ enabled' = ~enabled
  /\ UNCHANGED << store, nextId, devicesData, devicesError,
                  readingsData, readingsError, fetch, subscriptionRef, channels, effect >>
  /\ UNCHANGED views

\* What App renders for its state: nothing until the session was checked, the
\* login form without a session, else the dashboard (export control, sign-out
\* button and the device cards or their skeletons).
App(sessionChecked, authed) ==
  IF ~sessionChecked THEN {}
  ELSE IF ~authed THEN {"Login"}
  ELSE {"ExportCSVDialog", "SignOut", "DeviceCards"}

(* ------------------------------ devicesQuery -------------------------- *)
\* The devices queryFn runs (the query is enabled as of the last render and
\* has no data yet: staleTime is Infinity) and settles: the ordered table, or
\* an error.
DevicesQuery ==
  /\ effect.enabled
  /\ ~devicesData.defined
  /\ \/ /\ \E s \in DevicesOrderedByName : devicesData' = Defined(s)
        /\ devicesError' = FALSE
     \/ /\ devicesError' = TRUE
        /\ UNCHANGED devicesData
  /\ UNCHANGED << store, nextId, enabled, readingsData,
                  readingsError, fetch, subscriptionRef, channels, effect >>
  /\ UNCHANGED views

(* ------------------------------ readingsQuery ------------------------- *)
\* The answers the backend may give to the per-device queries that the
\* readings queryFn issues for `ids`, as Promise.all collects them.
QueryResults(rows, ids) ==
  { res \in [DOMAIN ids -> [data : {<< >>} \cup {<< r >> : r \in rows}, error : {FALSE}]] :
      \A i \in DOMAIN ids : res[i].data \in SelectLatest(rows, ids[i]) }

\* The same with at least one of the queries failing: a failed query carries
\* an error and no data.
QueryErrors(rows, ids) ==
  { res \in [DOMAIN ids -> [data : {<< >>} \cup {<< r >> : r \in rows}, error : BOOLEAN]] :
      /\ \E i \in DOMAIN ids : res[i].error
      /\ \A i \in DOMAIN ids :
           IF res[i].error THEN res[i].data = << >>
           ELSE res[i].data \in SelectLatest(rows, ids[i]) }

\* The readings query without refetchInterval: it runs while it has no data.
StartRefreshOnce ==
  /\ effect.enabled
  /\ effect.loaded
  /\ ~fetch.active
  /\ ~readingsData.defined
  /\ LET ids == [i \in DOMAIN devicesData.value |-> devicesData.value[i].id] IN
     \E res \in QueryResults(store, ids) \cup QueryErrors(store, ids) :
       fetch' = [active |-> TRUE, results |-> res]
  /\ UNCHANGED << store, nextId, enabled, devicesData, devicesError,
                  readingsData, readingsError, subscriptionRef, channels, effect >>
  /\ UNCHANGED views

\* The readings query enabled whenever the device list is cached, whatever
\* the session.
StartRefreshUngated ==
  /\ devicesData.defined
  /\ ~fetch.active
  /\ LET ids == [i \in DOMAIN devicesData.value |-> devicesData.value[i].id] IN
     \E res \in QueryResults(store, ids) \cup QueryErrors(store, ids) :
       fetch' = [active |-> TRUE, results |-> res]
  /\ UNCHANGED << store, nextId, enabled, devicesData, devicesError,
                  readingsData, readingsError, subscriptionRef, channels, effect >>
  /\ UNCHANGED views

\* The readings queryFn runs (on enable, every refetchInterval, or on
\* refetch(); enabled && !!devicesQuery.data as of the last render) and its
\* per-device queries read the table, or fail: Promise.all is pending with
\* their results.
StartRefresh ==
  /\ effect.enabled
  /\ effect.loaded
  /\ ~fetch.active
  /\ LET ids == [i \in DOMAIN devicesData.value |-> devicesData.value[i].id] IN
     \E res \in QueryResults(store, ids) \cup QueryErrors(store, ids) :
       fetch' = [active |-> TRUE, results |-> res]
  /\ UNCHANGED << store, nextId, enabled, devicesData, devicesError,
                  readingsData, readingsError, subscriptionRef, channels, effect >>
  /\ UNCHANGED views

\* The completion that clears the cached data when the queryFn throws.
CompleteRefreshClears ==
  /\ fetch.active
  /\ IF \E i \in DOMAIN fetch.results : fetch.results[i].error
     THEN /\ readingsError' = TRUE
          /\ readingsData' = Undefined(EmptyMap)
     ELSE /\ readingsData' = Defined(LatestById(fetch.results, Len(fetch.results)))
          /\ readingsError' = FALSE
  /\ fetch' = Idle
  /\ UNCHANGED << store, nextId, enabled, devicesData, devicesError,
                  subscriptionRef, channels, effect >>
  /\ UNCHANGED views

\* Promise.all has resolved: the queryFn throws on the first error, else
\* returns latestById, which replaces the cached data.
CompleteRefresh ==
  /\ fetch.active
  /\ IF \E i \in DOMAIN fetch.results : fetch.results[i].error
     THEN /\ readingsError' = TRUE
          /\ UNCHANGED readingsData
     ELSE /\ readingsData' = Defined(LatestById(fetch.results, Len(fetch.results)))
          /\ readingsError' = FALSE
  /\ fetch' = Idle
  /\ UNCHANGED << store, nextId, enabled, devicesData, devicesError,
                  subscriptionRef, channels, effect >>
  /\ UNCHANGED views

(* -------------------------- subscription effect ----------------------- *)
\* The effect without its cleanup and without the removal on !enabled: it
\* only ever subscribes.
RunEffectKeeps ==
  /\ << enabled, devicesData.defined >> # << effect.enabled, effect.loaded >>
  /\ subscriptionRef' = IF enabled
                        THEN [current |-> TRUE, captured |-> devicesData.defined]
                        ELSE subscriptionRef
  /\ channels' = IF enabled /\ ~subscriptionRef.current
                 THEN channels + 1 ELSE channels
  /\ effect' = [enabled |-> enabled, loaded |-> devicesData.defined,
                cleanup |-> FALSE]
  /\ UNCHANGED << store, nextId, enabled, devicesData,
                  devicesError, readingsData, readingsError, fetch >>
  /\ UNCHANGED views

\* The effect whose cleanup forgets the handle without removing the channel.
RunEffectLeaks ==
  /\ << enabled, devicesData.defined >> # << effect.enabled, effect.loaded >>
  /\ LET removed == 0
         afterCleanup == IF effect.cleanup /\ subscriptionRef.current
                         THEN [current |-> FALSE, captured |-> FALSE]
                         ELSE subscriptionRef
     IN IF ~enabled
        THEN /\ subscriptionRef' = [current |-> FALSE, captured |-> FALSE]
             /\ channels' = channels - removed
                               - (IF afterCleanup.current THEN 1 ELSE 0)
             /\ effect' = [enabled |-> enabled, loaded |-> devicesData.defined,
                           cleanup |-> FALSE]
        ELSE IF afterCleanup.current
        THEN /\ subscriptionRef' = afterCleanup
             /\ channels' = channels - removed
             /\ effect' = [enabled |-> enabled, loaded |-> devicesData.defined,
                           cleanup |-> FALSE]
        ELSE /\ subscriptionRef' = [current |-> TRUE, captured |-> devicesData.defined]
             /\ channels' = channels - removed + 1
             /\ effect' = [enabled |-> enabled, loaded |-> devicesData.defined,
                           cleanup |-> TRUE]
  /\ UNCHANGED << store, nextId, enabled, devicesData,
                  devicesError, readingsData, readingsError, fetch >>
  /\ UNCHANGED views

\* React commits the render that follows a change of authed or of
\* devicesQuery.data; useEffect(..., [enabled, queryClient, devicesQuery.data])
\* sees a changed dependency: the previous cleanup runs (removeChannel on the
\* handle, if it holds one), then the effect body (removeChannel on !enabled,
\* nothing if the handle holds a channel, else channel().subscribe()).
RunEffect ==
  /\ << enabled, devicesData.defined >> # << effect.enabled, effect.loaded >>
  /\ LET removed == IF effect.cleanup /\ subscriptionRef.current THEN 1 ELSE 0
         afterCleanup == IF effect.cleanup /\ subscriptionRef.current
                         THEN [current |-> FALSE, captured |-> FALSE]
                         ELSE subscriptionRef
     IN IF ~enabled
        THEN /\ subscriptionRef' = [current |-> FALSE, captured |-> FALSE]
             /\ channels' = channels - removed
                               - (IF afterCleanup.current THEN 1 ELSE 0)
             /\ effect' = [enabled |-> enabled, loaded |-> devicesData.defined,
                           cleanup |-> FALSE]
        ELSE IF afterCleanup.current
        THEN /\ subscriptionRef' = afterCleanup
             /\ channels' = channels - removed
             /\ effect' = [enabled |-> enabled, loaded |-> devicesData.defined,
                           cleanup |-> FALSE]
        ELSE /\ subscriptionRef' = [current |-> TRUE, captured |-> devicesData.defined]
             /\ channels' = channels - removed + 1
             /\ effect' = [enabled |-> enabled, loaded |-> devicesData.defined,
                           cleanup |-> TRUE]
  /\ UNCHANGED << store, nextId, enabled, devicesData,
                  devicesError, readingsData, readingsError, fetch >>
  /\ UNCHANGED views

\* App is unmounted and mounted again under the same QueryClient: the
\* effect's cleanup runs if it registered one, then the new instance starts
\* with authed = false and an empty handle, and its effect returns at once.
\* Queries in flight and the cache are the QueryClient's and stay.
Remount ==
  /\ LET removed == IF effect.cleanup /\ subscriptionRef.current THEN 1 ELSE 0
     IN channels' = channels - removed
  /\ subscriptionRef' = [current |-> FALSE, captured |-> FALSE]
  /\ enabled' = FALSE
  /\ effect' = [enabled |-> FALSE, loaded |-> devicesData.defined,
                cleanup |-> FALSE]
  /\ UNCHANGED << store, nextId, devicesData,
                  devicesError, readingsData, readingsError, fetch >>
  /\ UNCHANGED views

\* The cache value after the callback's setQueryData for one payload: the
\* callback addresses the entry ["readings", ids] only if the render it was
\* created in had the device list; the entry ["readings", undefined] never
\* holds data.
ApplyChange(rd, captured, payload) ==
  IF captured THEN Updater(rd, payload) ELSE rd

\* The channel delivers a change event to the postgres_changes callback.  The
\* transport may deliver the same event again later.
Deliver ==
  /\ subscriptionRef.current
  /\ \E e \in Deliverable :
       readingsData' = ApplyChange(readingsData, subscriptionRef.captured, e)
  /\ readingsError' = IF subscriptionRef.captured /\ readingsData.defined
                      THEN FALSE ELSE readingsError
  /\ UNCHANGED << store, nextId, enabled, devicesData, devicesError,
                  fetch, subscriptionRef, channels, effect >>
  /\ UNCHANGED views

Next ==
  \/ StoreInsert
  \/ StoreDelete
  \/ SetAuthed
  \/ DevicesQuery
  \/ StartRefresh
  \/ CompleteRefresh
  \/ RunEffect
  \/ Deliver

Spec == Init /\ [][Next]_vars

\* The same with App unmounting and mounting again.
MountNext ==
  \/ Next
  \/ Remount

MountSpec == Init /\ [][MountNext]_vars

(* ===================== DeviceCard as a specification ================== *)
\* A DeviceCard renders for some props at some instant of the clock.
DeviceCard ==
  /\ \E device \in CardDevices, now \in Clock :
       card' = [rendered |-> TRUE, device |-> device, now |-> now,
                stale |-> stale(device, now)]
  /\ UNCHANGED hook
  /\ UNCHANGED << chart, dialog, login >>

CardSpec == Init /\ [][DeviceCard]_vars

(* ================= DeviceChartDialog as a specification =============== *)
\* handleOpenChange(true): the dialog opens, its query fetches the history
\* and the content renders with it, in a browser of some zone.
DeviceChartDialog ==
  /\ ~chart.rendered
  /\ \E readings \in Histories, tz \in TimezoneOffsets :
       chart' = [rendered |-> TRUE, readings |-> readings, tz |-> tz,
                 groupedData |-> GroupedData(readings, tz, Len(readings)),
                 chartData |-> ChartData(readings, tz)]
  /\ UNCHANGED hook
  /\ UNCHANGED << card, dialog, login >>

\* handleOpenChange(false): the dialog closes and its content unmounts.
CloseChartDialog ==
  /\ chart.rendered
  /\ chart' = NoChart
  /\ UNCHANGED hook
  /\ UNCHANGED << card, dialog, login >>

ChartNext == DeviceChartDialog \/ CloseChartDialog

ChartSpec == Init /\ [][ChartNext]_vars

(* ================== ExportCSVDialog as a specification ================ *)
\* The dialog opens (the form keeps its values; the last outcome is
\* forgotten).
OpenExportDialog ==
  /\ ~dialog.open
  /\ dialog' = [NoDialog EXCEPT !.open = TRUE, !.start = dialog.start,
                                !.end = dialog.end, !.zone = dialog.zone,
                                !.err = dialog.err]
  /\ UNCHANGED hook
  /\ UNCHANGED << card, chart, login >>

\* Cancel, or the dialog is dismissed.
CloseExportDialog ==
  /\ dialog.open
  /\ dialog' = [dialog EXCEPT !.open = FALSE]
  /\ UNCHANGED hook
  /\ UNCHANGED << card, chart, login >>

\* onChange of the two date inputs and of the zone select.
SetStart ==
  /\ dialog.open
  /\ \E v \in ExportDays : dialog' = [dialog EXCEPT !.start = v]
  /\ UNCHANGED hook
  /\ UNCHANGED << card, chart, login >>

SetEnd ==
  /\ dialog.open
  /\ \E v \in ExportDays : dialog' = [dialog EXCEPT !.end = v]
  /\ UNCHANGED hook
  /\ UNCHANGED << card, chart, login >>

SetZone ==
  /\ dialog.open
  /\ \E z \in Zones : dialog' = [dialog EXCEPT !.zone = z]
  /\ UNCHANGED hook
  /\ UNCHANGED << card, chart, login >>

\* run: "Download CSV" is clicked, in a browser of some zone, against some
\* contents of the table; the query succeeds or fails.
Run ==
  /\ dialog.open
  /\ IF dialog.start = << >> \/ dialog.end = << >>
     THEN dialog' = [dialog EXCEPT !.err = "Choose start & end dates."]
     ELSE IF dialog.zone = << >>
     THEN dialog' = [dialog EXCEPT !.err = "Select a zone."]
     ELSE \E tz \in ExportOffsets, table \in ExportTables :
            LET startIso == toUtcIso(dialog.start, FALSE, tz)
                endIso == toUtcIso(dialog.end, TRUE, tz)
            IN IF startIso = << >> \/ endIso = << >>
               THEN dialog' = [dialog EXCEPT !.err = "Invalid date(s)."]
               ELSE \/ dialog' = [dialog EXCEPT !.err = "error.message"]
                    \/ \E data \in ExportQuery(table, startIso[1], endIso[1], dialog.zone) :
                         dialog' = [dialog EXCEPT
                                      !.err = "", !.queried = TRUE, !.tz = tz,
                                      !.table = table, !.data = data,
                                      !.csv = Csv([ i \in DOMAIN data |-> CsvRow(data[i]) ]),
                                      !.open = FALSE]
  /\ UNCHANGED hook
  /\ UNCHANGED << card, chart, login >>

ExportNext ==
  \/ OpenExportDialog
  \/ CloseExportDialog
  \/ SetStart
  \/ SetEnd
  \/ SetZone
  \/ Run

ExportSpec == Init /\ [][ExportNext]_vars

(* ======================= Login as a specification ===================== *)
\* App's effect on mount: getSession resolves, authed becomes whether this
\* client has a session, and the session counts as checked.
GetSession ==
  /\ ~login.sessionChecked
  /\ login' = [login EXCEPT !.sessionChecked = TRUE]
  /\ enabled' = login.session
  /\ UNCHANGED << store, nextId, devicesData, devicesError,
                  readingsData, readingsError, fetch, subscriptionRef, channels, effect >>
  /\ UNCHANGED << card, chart, dialog >>

\* The login form is on screen: App's committed render returned <Login />.
LoginMounted ==
  /\ effect.enabled = enabled
  /\ App(login.sessionChecked, enabled) = {"Login"}

\* The form is submitted (the button is disabled while loading): signIn up
\* to its await of signInWithPassword.
signIn ==
  /\ LoginMounted
  /\ ~login.loading
  /\ login.signIns < MaxSignIns
  /\ login' = [login EXCEPT !.err = NoErr, !.loading = TRUE,
                            !.signIns = login.signIns + 1]
  /\ UNCHANGED hook
  /\ UNCHANGED << card, chart, dialog >>

\* The continuation of signIn that calls onAuthed whatever the backend said.
SignInRejectedCallsOnAuthed ==
  /\ login.loading
  /\ \E message \in AuthErrorMessages :
       login' = [login EXCEPT !.loading = FALSE, !.err = message,
                              !.onAuthed = login.onAuthed + 1]
  /\ enabled' = TRUE
  /\ UNCHANGED << store, nextId, devicesData, devicesError,
                  readingsData, readingsError, fetch, subscriptionRef, channels, effect >>
  /\ UNCHANGED << card, chart, dialog >>

\* signInWithPassword resolves with an error: setLoading(false), then
\* setErr(error.message).
SignInRejected ==
  /\ login.loading
  /\ \E message \in AuthErrorMessages :
       login' = [login EXCEPT !.loading = FALSE, !.err = message]
  /\ UNCHANGED hook
  /\ UNCHANGED << card, chart, dialog >>

\* signInWithPassword resolves without an error: the client has a session,
\* setLoading(false), then onAuthed(), which is App's setAuthed(true) (the
\* auth state listener sets the same value).
SignInAccepted ==
  /\ login.loading
  /\ login' = [login EXCEPT !.loading = FALSE, !.session = TRUE,
                            !.onAuthed = login.onAuthed + 1]
  /\ enabled' = TRUE
  /\ UNCHANGED << store, nextId, devicesData, devicesError,
                  readingsData, readingsError, fetch, subscriptionRef, channels, effect >>
  /\ UNCHANGED << card, chart, dialog >>

\* The Sign out button: supabase.auth.signOut() ends the session and the
\* auth state listener calls setAuthed(false); the login form that App
\* renders next is a new mount, with its initial state.
signOut ==
  /\ "SignOut" \in App(login.sessionChecked, enabled)
  /\ login' = [login EXCEPT !.session = FALSE, !.err = NoErr, !.loading = FALSE]
  /\ enabled' = FALSE
  /\ UNCHANGED << store, nextId, devicesData, devicesError,
                  readingsData, readingsError, fetch, subscriptionRef, channels, effect >>
  /\ UNCHANGED << card, chart, dialog >>

\* The session of one client against a backend whose readings table is
\* empty: the login form, the sign-out button and the hook's queries and
\* effect.
LoginNext ==
  \/ GetSession
  \/ signIn
  \/ SignInRejected
  \/ SignInAccepted
  \/ signOut
  \/ DevicesQuery
  \/ StartRefresh
  \/ CompleteRefresh
  \/ RunEffect

LoginSpec == Init /\ [][LoginNext]_vars

(* ======================= properties of the reconciler ================= *)
\* The latest held for a device in a cache value: << r >>, or << >> for none.
Held(rd, d) ==
  IF rd.defined /\ MapHas(rd.value, d) THEN << rd.value[d] >> ELSE << >>

\* The cache value after the delivery of e in the current state.
AfterChange(e) == ApplyChange(readingsData, subscriptionRef.captured, e)

UpsertEvents == { e \in Deliverable : e.eventType \in {"INSERT", "UPDATE"} }
DeleteEvents == { e \in Deliverable : e.eventType = "DELETE" }

\* created_at of a is earlier than that of b (both present).
Earlier(a, b) == a.created_at # NoTs /\ b.created_at # NoTs /\ a.created_at < b.created_at

\* The mapping is loaded and the open channel's callback addresses it.
Live == subscriptionRef.current /\ subscriptionRef.captured /\ readingsData.defined

\* C1 (for readings that the table still holds): in every step, refresh
\* completions included, the reading held for a known device is not replaced
\* by a reading with a smaller created_at while the table still holds the
\* reading that was held.
C1_NeverRegresses ==
  [][ \A d \in KnownIds :
        LET before == Held(readingsData, d)
            after  == Held(readingsData', d)
        IN (before # << >> /\ after # << >> /\ before[1] \in store)
             => ~Earlier(after[1], before[1]) ]_vars

\* C2: an insert or update event whose reading is older than the latest held
\* for its device leaves the mapping unchanged.
C2_OlderEventIgnored ==
  Live =>
    \A e \in UpsertEvents :
      LET h == Held(readingsData, e.new.device_id) IN
      (h # << >> /\ Earlier(e.new, h[1])) => AfterChange(e) = readingsData

\* C2 witness: the callback is live, the latest of device "a" is held, and an
\* event with an older reading of "a" can be delivered.
C2_Witness ==
  /\ Live
  /\ \E e \in UpsertEvents :
       /\ e.new.device_id = "a"
       /\ Held(readingsData, "a") # << >>
       /\ Earlier(e.new, Held(readingsData, "a")[1])

\* C3: applying a change event twice in a row yields the mapping that
\* applying it once yields.
C3_Idempotent ==
  subscriptionRef.current =>
    \A e \in Deliverable :
      ApplyChange(AfterChange(e), subscriptionRef.captured, e) = AfterChange(e)

\* C3 witness: an event that changes the mapping when applied once.
C3_Witness ==
  /\ Live
  /\ \E e \in Deliverable :
       /\ AfterChange(e) # readingsData
       /\ Held(readingsData, e.new.device_id) # << >>

\* The events of device d that carry both device_id and created_at.
WellFormed(d) ==
  { e \in UpsertEvents : e.new.device_id = d /\ e.new.created_at # NoTs }

\* The sequences of one or two events of d with strictly increasing
\* created_at.
Increasing(d) ==
  { << e >> : e \in WellFormed(d) }
  \cup { seq \in { << e1, e2 >> : e1 \in WellFormed(d), e2 \in WellFormed(d) } :
           Earlier(seq[1].new, seq[2].new) }

\* The cache value after the events of seq, delivered in order.
RECURSIVE AfterAll(_, _)
AfterAll(rd, seq) ==
  IF seq = << >> THEN rd
  ELSE AfterAll(ApplyChange(rd, subscriptionRef.captured, Head(seq)), Tail(seq))

\* C4 as stated (on mappings whose held readings carry a created_at): after
\* any sequence of events of a known device with strictly increasing
\* created_at, the latest held for the device is the last event's reading.
C4_LastEventHeld ==
  Live =>
    \A d \in KnownIds :
      (Held(readingsData, d) = << >> \/ Held(readingsData, d)[1].created_at # NoTs)
        => \A seq \in Increasing(d) :
             Held(AfterAll(readingsData, seq), d) = << seq[Len(seq)].new >>

\* C4 amended: the same, for the sequences whose last event is newer than
\* the latest held for the device before them, or when none is held.
C4_LastNewerEventHeld ==
  Live =>
    \A d \in KnownIds :
      \A seq \in Increasing(d) :
        LET h == Held(readingsData, d)
            last == seq[Len(seq)].new
        IN (h = << >> \/ Earlier(h[1], last))
             => Held(AfterAll(readingsData, seq), d) = << last >>

\* C4 witness: an older reading of "a" is held and two events of "a" with
\* increasing created_at, the second one newer than it, can be delivered.
C4_Witness ==
  /\ Live
  /\ Held(readingsData, "a") # << >>
  /\ \E seq \in Increasing("a") :
       /\ Len(seq) = 2
       /\ Earlier(Held(readingsData, "a")[1], seq[2].new)

\* C7: an insert or update event whose reading lacks device_id or created_at
\* leaves the latest held for every device unchanged, also when none is held.
C7_MalformedDropped ==
  Live =>
    \A e \in UpsertEvents :
      (e.new.device_id = NoId \/ e.new.created_at = NoTs)
        => \A d \in KnownIds :
             Held(AfterChange(e), d) = Held(readingsData, d)

\* The events whose reading names a device that the device list lacks.
UnknownEvents ==
  { e \in UpsertEvents : e.new.device_id \in RowDeviceIds \ KnownIds }

\* C8 as stated: an event of an unknown device leaves the mapping and the
\* snapshot as they were.
C8_UnknownIgnored ==
  Live =>
    \A e \in UnknownEvents :
      /\ AfterChange(e) = readingsData
      /\ Devices(devicesData, AfterChange(e)) = snapshot

\* C8 amended: an event of an unknown device leaves the latest held for
\* every known device and the snapshot as they were (the cached Map itself
\* gains an entry under the unknown id).
C8_UnknownInvisible ==
  Live =>
    \A e \in UnknownEvents :
      /\ \A d \in KnownIds : Held(AfterChange(e), d) = Held(readingsData, d)
      /\ Devices(devicesData, AfterChange(e)) = snapshot

\* C8 witness: a reading of a known device is held and an event of the
\* unknown device "z" has been applied (the cached Map holds its reading,
\* which no view of the snapshot shows) and can be delivered again.
C8_Witness ==
  /\ Live
  /\ Held(readingsData, "a") # << >>
  /\ \E e \in UnknownEvents : Held(readingsData, "z") = << e.new >>
  /\ \A i \in DOMAIN snapshot :
       snapshot[i].latest = << >> \/ snapshot[i].latest[1].device_id # "z"

\* C9: a delete event changes the reading held for no device.
C9_DeleteIgnored ==
  subscriptionRef.current =>
    \A e \in DeleteEvents : AfterChange(e) = readingsData

\* C9 witness: the row held as latest of a known device was deleted and its
\* delete event can be delivered.
C9_Witness ==
  /\ Live
  /\ \E e \in DeleteEvents, d \in KnownIds :
       /\ Held(readingsData, d) # << >>
       /\ Held(readingsData, d)[1].id = e.old.id

\* C10: once the device list is loaded, the snapshot has exactly one view per
\* device of the table, ordered by name ascending.
C10_SnapshotOnePerDevice ==
  devicesData.defined =>
    /\ Len(snapshot) = Cardinality(DeviceTable)
    /\ { snapshot[i].id : i \in DOMAIN snapshot } = KnownIds
    /\ \A i, j \in DOMAIN snapshot :
         i < j => NameRank(snapshot[i].name) <= NameRank(snapshot[j].name)

\* C10 witness: after refreshes and events the cached Map holds a known
\* device's reading and one of an unknown device, and a device has none.
C10_Witness ==
  /\ devicesData.defined
  /\ readingsData.defined
  /\ DOMAIN readingsData.value = {"a", "z"}
  /\ snapshot[1].latest = << >>

\* The rows of device d in a table.
RowsOf(rows, d) == { r \in rows : r.device_id = d }

\* initialize(devices, readings) as the claim has it: m maps every device of
\* devs with rows to one of its rows with the greatest created_at, and no
\* device without rows; the snapshot built from m reports such a device with
\* no reading.
Initialized(devs, rows, m) ==
  \A i \in DOMAIN devs :
    LET d == devs[i].id
        view == Devices(Defined(devs), Defined(m))[i]
    IN IF RowsOf(rows, d) = {}
       THEN ~MapHas(m, d) /\ view.latest = << >>
       ELSE /\ MapHas(m, d)
            /\ m[d] \in RowsOf(rows, d)
            /\ \A o \in RowsOf(rows, d) : o.created_at <= m[d].created_at
            /\ view.latest = << m[d] >>

NoError(results) == \A i \in DOMAIN results : ~results[i].error

\* C6: the Map that a refresh builds from the table it read maps every device
\* to its reading with the greatest created_at and no device without
\* readings, and the snapshot reports the latter with no reading.
C6_Initialize ==
  [][ (~fetch.active /\ fetch'.active /\ NoError(fetch'.results))
        => Initialized(devicesData.value, store,
                       LatestById(fetch'.results, Len(fetch'.results))) ]_vars

\* C6 witness: a refresh has read a table in which device "a" has two
\* readings with different created_at and device "b" has none, and has
\* completed: the cache holds what it built.
C6_Witness ==
  /\ readingsData.defined
  /\ ~fetch.active
  /\ \E r1, r2 \in RowsOf(store, "a") : r1.created_at < r2.created_at
  /\ RowsOf(store, "b") = {}
  /\ Initialized(devicesData.value, store, readingsData.value)

(* ------------------------------ liveness ------------------------------ *)
\* React commits a pending render; the refetchInterval timer fires while the
\* readings query is enabled and idle; a started queryFn settles.
Fairness ==
  /\ WF_vars(RunEffect)
  /\ WF_vars(StartRefresh)
  /\ WF_vars(CompleteRefresh)

LiveSpec == Init /\ [][Next]_vars /\ Fairness

\* The session is authenticated, the device list is loaded and no refresh
\* fails.  (The table changes finitely often: MaxRows bounds its rows.)
Quiet ==
  /\ enabled
  /\ devicesData.defined
  /\ ~readingsError
  /\ fetch.active => NoError(fetch.results)

\* The latest held for every known device is a reading of the table with the
\* greatest created_at for that device (none when the table has none).
Consistent ==
  /\ readingsData.defined
  /\ \A d \in KnownIds : Held(readingsData, d) \in SelectLatest(store, d)

\* C5: whatever change events were lost, once the table has stopped changing
\* and for as long as the session stays authenticated and refreshes succeed,
\* the latest held for every known device is again and again the table's
\* reading with the greatest created_at.
C5_PollingBackstop == (<>[]Quiet) => []<>Consistent

\* C5 witness: the session is authenticated, no refresh is running or has
\* failed, and the cache agrees with a table that holds two readings of "a".
C5_Witness ==
  /\ Quiet
  /\ ~fetch.active
  /\ Consistent
  /\ \E r1, r2 \in RowsOf(store, "a") : r1.created_at < r2.created_at

C12_NothingActive ==
  ~effect.enabled =>
    /\ ~ENABLED DevicesQuery
    /\ ~fetch.active
    /\ ~ENABLED StartRefresh
    /\ ~subscriptionRef.current
    /\ \A sessionChecked \in BOOLEAN :
         App(sessionChecked, effect.enabled) \subseteq {"Login"}

\* C12 amended: while the committed session is unauthenticated no devices
\* query and no refresh of the readings can start, no channel is open, and
\* App renders the login form or (before the session was checked) nothing;
\* a refresh that was started before the sign-out may still be in flight.
C12_NothingStarts ==
  ~effect.enabled =>
    /\ ~ENABLED DevicesQuery
    /\ ~ENABLED StartRefresh
    /\ ~subscriptionRef.current
    /\ \A sessionChecked \in BOOLEAN :
         App(sessionChecked, effect.enabled) \subseteq {"Login"}

\* C12 witness: the session was signed out while a refresh of the loaded
\* mapping was in flight.
C12_Witness ==
  /\ ~enabled
  /\ ~effect.enabled
  /\ devicesData.defined
  /\ readingsData.defined
  /\ fetch.active

C14_TieBreakDeterministic ==
  /\ devicesData.defined =>
       LET ids == [i \in DOMAIN devicesData.value |-> devicesData.value[i].id] IN
       \A r1, r2 \in QueryResults(store, ids) :
         LatestById(r1, Len(r1)) = LatestById(r2, Len(r2))
  /\ Live =>
       \A d \in KnownIds :
         \A e1, e2 \in WellFormed(d) :
           Held(AfterAll(readingsData, << e1, e2 >>), d)
             = Held(AfterAll(readingsData, << e2, e1 >>), d)

(* ------------------------------- freshness ---------------------------- *)
\* C15: a card shows its device as stale exactly when the device has no
\* latest reading or the clock is more than 12500 ms past the reading's
\* created_at: at an age of 12499 ms and of 12500 ms it is fresh, at 12501 ms
\* it is stale.
C15_StaleExactlyPastThreshold ==
  card.rendered =>
    LET r == card.device.latest IN
    /\ card.stale <=> \/ r = << >>
                      \/ /\ r[1].created_at # NoTs
                         /\ card.now - r[1].created_at > 12500
    /\ (r # << >> /\ r[1].created_at # NoTs) =>
         /\ card.now - r[1].created_at = 12499 => ~card.stale
         /\ card.now - r[1].created_at = 12500 => ~card.stale
         /\ card.now - r[1].created_at = 12501 => card.stale

\* C15 witness: a card rendered exactly 12500 ms after its reading's
\* created_at, and shows it as fresh.
C15_Witness ==
  /\ card.rendered
  /\ card.device.latest # << >>
  /\ card.device.latest[1].created_at # NoTs
  /\ card.now - card.device.latest[1].created_at = StaleAfterMs
  /\ ~card.stale

(* ------------------------------ aggregator ---------------------------- *)
\* The start of the 3-hour wall-clock period of instant t in zone tz: the
\* instant s <= t < s + 3 h whose local time is an hour divisible by 3.
PeriodStart(t, tz) == t - ((t + tz) % (3 * HourMs))

\* The readings of the chart's history that belong to the period of point p.
InPeriod(p) ==
  { i \in DOMAIN chart.readings :
      PeriodStart(chart.readings[i].created_at, chart.tz) = p.datetime }

\* The present values of the channels `names` in the readings `is` of the
\* history: the cells that hold them, and their total.
Cells(is, names) ==
  { c \in is \X names : chart.readings[c[1]][c[2]] # << >> }

RECURSIVE Total(_)
Total(cells) ==
  IF cells = {} THEN 0
  ELSE LET c == CHOOSE x \in cells : TRUE
       IN chart.readings[c[1]][c[2]][1] + Total(cells \ {c})

\* a (in tenths) is the mean of the cells' values rounded to one decimal
\* place, halves rounded up.
IsRoundedMean(a, cells) ==
  LET n == Cardinality(cells) IN
  /\ 2 * n * a - n <= 20 * Total(cells)
  /\ 20 * Total(cells) < 2 * n * a + n

Families ==
  { [avg |-> "avgSoilMoisture", names |-> {"soil_1", "soil_2", "soil_3", "soil_4"}],
    [avg |-> "avgTemperature", names |-> {"temp_1", "temp_2"}],
    [avg |-> "avgHumidity", names |-> {"hum_1", "hum_2"}] }

\* C16: for every point of the chart and each family, the average is absent
\* exactly when no reading of the point's period has a value in a channel of
\* the family, and otherwise it is the mean of the present values rounded to
\* one decimal place; the values 70 and 80 average to 75.0.
C16_AverageOfPresentValues ==
  chart.rendered =>
    \A k \in DOMAIN chart.chartData : \A f \in Families :
      LET p == chart.chartData[k]
          cells == Cells(InPeriod(p), f.names)
      IN /\ (p[f.avg] = << >>) <=> (cells = {})
         /\ cells # {} => IsRoundedMean(p[f.avg][1], cells)
         /\ (Cardinality(cells) = 2 /\ Total(cells) = 150) => p[f.avg] = << 750 >>

\* C16 witness: a period with two readings, one of them without any value,
\* whose soil values are 70 and 80: the soil average is 75.0 and the
\* temperature average is absent.
C16_Witness ==
  /\ chart.rendered
  /\ \E k \in DOMAIN chart.chartData :
       LET p == chart.chartData[k] IN
       /\ Cardinality(InPeriod(p)) = 2
       /\ Cardinality(Cells(InPeriod(p), {"soil_1", "soil_2", "soil_3", "soil_4"})) = 2
       /\ p.avgSoilMoisture = << 750 >>
       /\ p.avgTemperature = << >>

\* C17: every reading of the history is in exactly one entry of groupedData,
\* the one of its period, whose start is the reading's created_at rounded
\* down to a local hour divisible by 3; the chart has one point per period
\* that has a reading, in strictly ascending order of the periods' starts,
\* and no point for an empty history.
C17_OneBucketPerReading ==
  chart.rendered =>
    LET rs == chart.readings
        g == chart.groupedData
        out == chart.chartData
        starts == { PeriodStart(rs[i].created_at, chart.tz) : i \in DOMAIN rs }
    IN /\ \A i \in DOMAIN rs :
            \E j \in DOMAIN g :
              /\ g[j].key = toISOString(PeriodStart(rs[i].created_at, chart.tz))
              /\ \E x \in DOMAIN g[j].readings : g[j].readings[x] = rs[i]
       /\ \A j1, j2 \in DOMAIN g : g[j1].key = g[j2].key => j1 = j2
       /\ Sum([ j \in DOMAIN g |-> Len(g[j].readings) ]) = Len(rs)
       /\ \A k \in DOMAIN out :
            /\ (out[k].datetime + chart.tz) % (3 * HourMs) = 0
            /\ out[k].datetime \in starts
       /\ Len(out) = Cardinality(starts)
       /\ \A k1, k2 \in DOMAIN out : k1 < k2 => out[k1].datetime < out[k2].datetime
       /\ rs = << >> => out = << >>

\* C17 witness: a history of two readings of different periods, the newer
\* one first as the query returns them, charted in Kuala Lumpur's zone as
\* two points.
C17_Witness ==
  /\ chart.rendered
  /\ chart.tz = 8 * HourMs
  /\ Len(chart.readings) = 2
  /\ chart.readings[1].created_at > chart.readings[2].created_at
  /\ Len(chart.chartData) = 2

(* -------------------------------- export ------------------------------ *)
\* text.split(sep)
RECURSIVE Split(_, _)
Split(text, sep) ==
  IF \A i \in DOMAIN text : text[i] # sep THEN << text >>
  ELSE LET i == CHOOSE x \in DOMAIN text :
                  text[x] = sep /\ \A y \in 1..(x - 1) : text[y] # sep
       IN << SubSeq(text, 1, i - 1) >> \o Split(SubSeq(text, i + 1, Len(text)), sep)

\* C18: an export for a zone serializes exactly the rows of the table whose
\* device name is the zone and whose created_at lies between the first
\* instant of the start day and the last instant of the end day (days of the
\* browser's zone), in ascending order of created_at.
C18_ExportExactlyTheInterval ==
  (dialog.queried /\ dialog.zone # << >>) =>
    LET first == dialog.start[1] * DayMs - dialog.tz
        last == (dialog.end[1] + 1) * DayMs - 1 - dialog.tz
        wanted == { r \in dialog.table :
                      /\ r.devices.name = dialog.zone
                      /\ first <= r.created_at
                      /\ r.created_at <= last }
    IN /\ { dialog.data[i] : i \in DOMAIN dialog.data } = wanted
       /\ Len(dialog.data) = Cardinality(wanted)
       /\ \A i, j \in DOMAIN dialog.data :
            i < j => dialog.data[i].created_at <= dialog.data[j].created_at
       /\ Len(Split(dialog.csv, LineBreak)) = Len(dialog.data) + 1

\* C19: the zone is optional: with both dates chosen and no zone selected,
\* run is not refused for the missing zone.
C19_ZoneOptional ==
  (dialog.start # << >> /\ dialog.end # << >> /\ dialog.zone = << >>)
    => dialog.err # "Select a zone."

\* Line i + 1 of the csv is the line of fetched row i: 12 fields in the order
\* of the columns, the device's esp_id and name as they are, a null channel
\* as the empty field and any other channel, 0 included, by its digits.
IsLineOf(line, r) ==
  LET fields == Split(line, Comma) IN
  /\ Len(fields) = 12
  /\ Len(fields[1]) = 1
  /\ Len(fields[2]) = 1
  /\ fields[3] = r.devices.esp_id
  /\ fields[4] = r.devices.name
  /\ \A k \in 5..12 :
       fields[k] = IF r[ChannelNames[k - 4]] = << >> THEN << >>
                   ELSE << ToString(r[ChannelNames[k - 4]][1]) >>

Header ==
  << "date", Comma, "time", Comma, "esp_id", Comma, "name", Comma,
     "soil_1", Comma, "soil_2", Comma, "soil_3", Comma, "soil_4", Comma,
     "temp_1", Comma, "hum_1", Comma, "temp_2", Comma, "hum_2" >>

\* A text without a comma or a line break.
Plain(text) == \A i \in DOMAIN text : text[i] \notin {Comma, LineBreak}

\* C20 as stated: the csv of n fetched rows has n + 1 lines, the header and
\* then the line of each row in fetch order.
C20_CsvShape ==
  dialog.queried =>
    LET lines == Split(dialog.csv, LineBreak) IN
    /\ Len(lines) = Len(dialog.data) + 1
    /\ lines[1] = Header
    /\ \A i \in DOMAIN dialog.data : IsLineOf(lines[i + 1], dialog.data[i])

\* C20 amended: the same, when no fetched row's esp_id or name has a comma
\* or a line break.
C20_CsvShapeOfPlainNames ==
  (/\ dialog.queried
   /\ \A i \in DOMAIN dialog.data :
        Plain(dialog.data[i].devices.esp_id) /\ Plain(dialog.data[i].devices.name)) =>
    LET lines == Split(dialog.csv, LineBreak) IN
    /\ Len(lines) = Len(dialog.data) + 1
    /\ lines[1] = Header
    /\ \A i \in DOMAIN dialog.data : IsLineOf(lines[i + 1], dialog.data[i])

\* C20 witness: an export of two rows of a zone with a plain name, one with
\* no value in any channel and one with a 0 in the first.
C20_Witness ==
  /\ dialog.queried
  /\ Len(dialog.data) = 2
  /\ Plain(dialog.zone)
  /\ \E i, j \in DOMAIN dialog.data :
       /\ dialog.data[i].soil_1 = << >>
       /\ dialog.data[j].soil_1 = << 0 >>

(* -------------------------------- sign-in ----------------------------- *)
\* C21: a sign-in attempt that the auth backend rejects leaves the form
\* showing the error message with loading back to false, and changes nothing
\* else: authed stays false, onAuthed is not called, the client has no
\* session, the hook's state is untouched; and while the form shows the
\* message no devices query and no refresh can start and no channel is open.
C21_RejectedSignInChangesNothingElse ==
  /\ [][ (login.loading /\ ~login'.loading /\ ~login'.session)
           => /\ login'.err \in AuthErrorMessages
              /\ ~enabled /\ ~enabled'
              /\ login'.onAuthed = login.onAuthed
              /\ login'.session = login.session
              /\ login'.sessionChecked = login.sessionChecked
              /\ hook' = hook
              /\ App(login'.sessionChecked, enabled') = {"Login"} ]_vars
  /\ []( (LoginMounted /\ login.err # NoErr)
           => /\ ~login.loading
              /\ ~login.session
              /\ ~ENABLED DevicesQuery
              /\ ~ENABLED StartRefresh
              /\ ~ENABLED RunEffect
              /\ ~subscriptionRef.current )

\* C21 witness: after a session that loaded the device list and was signed
\* out, a second sign-in attempt has been rejected and the form shows the
\* message.
C21_Witness ==
  /\ LoginMounted
  /\ login.err # NoErr
  /\ ~login.loading
  /\ login.signIns = 2
  /\ login.onAuthed = 1
  /\ devicesData.defined

(* ------------------------- one entry per event ------------------------ *)
\* C22: an applied change event replaces at most the one entry of the
\* event reading's device_id: every other key has the same reading before
\* and after (none added, none removed), the entry of that key is the
\* previous reading or the event's reading as a whole, a DELETE changes no
\* entry; and the Map object that held the previous mapping is left as it
\* was, the cache receiving another object that holds the new mapping.
C22_OneEntryReplaced ==
  Live =>
    \A e \in Deliverable :
      LET before == readingsData.value
          after == AfterChange(e).value
          key == e.new.device_id
          previous == 1
          out == UpdaterObjects(previous :> before, previous, e)
      IN /\ AfterChange(e).defined
         /\ \A k \in ((DOMAIN before) \cup (DOMAIN after)) \ {key} :
              /\ k \in DOMAIN before
              /\ k \in DOMAIN after
              /\ after[k] = before[k]
         /\ e.eventType = "DELETE" => after = before
         /\ key \in DOMAIN before => key \in DOMAIN after
         /\ key \in DOMAIN after =>
              \/ after[key] = e.new /\ e.eventType # "DELETE"
              \/ key \in DOMAIN before /\ after[key] = before[key]
         /\ out.ref # previous
         /\ out.heap[previous] = before
         /\ out.heap[out.ref] = after

\* C22 witness: the mapping holds the reading of one device and an event
\* for another key is deliverable that the updater applies.
C22_Witness ==
  /\ Live
  /\ \E e \in UpsertEvents :
       /\ AfterChange(e) # readingsData
       /\ \E k \in DOMAIN readingsData.value : k # e.new.device_id

(* ------------------------------- channels ---------------------------- *)
\* C23: whatever the sequence of sign-ins, sign-outs, device-list loads and
\* unmounts, at most one channel is open on the client; a channel is open
\* only while the committed session is authenticated; every open channel is
\* the one the handle holds; a channel is opened only when none is open; and
\* a commit without a session, or an unmount, leaves none open.
C23_NoChannelLeak ==
  /\ [](channels \in {0, 1})
  /\ [](channels = 1 => effect.enabled)
  /\ [](channels = (IF subscriptionRef.current THEN 1 ELSE 0))
  /\ [][ channels' > channels => channels = 0 ]_vars
  /\ [][ (effect' # effect /\ ~effect'.enabled) => channels' = 0 ]_vars

\* C23 witness: a channel was opened on sign-in, replaced when the device
\* list loaded, and is open when App is about to unmount.
C23_Witness ==
  /\ channels = 1
  /\ subscriptionRef.captured
  /\ effect.cleanup
  /\ enabled
  /\ ENABLED Remount

(* ----------------------- events before the first load ------------------ *)
\* C24: while the readings mapping is not populated, no change event that
\* the channel can deliver changes it, whichever render created the
\* callback; the mapping, the readings error and the latest reading of every
\* device in the snapshot change in such a state only when a refresh
\* completes, and the mapping becomes populated only with what that refresh
\* returned.
C24_EventBeforeLoadDropped ==
  /\ []( ~readingsData.defined =>
           \A e \in Deliverable, captured \in BOOLEAN :
             ApplyChange(readingsData, captured, e) = readingsData )
  /\ [][ (~readingsData.defined /\ ~(fetch.active /\ ~fetch'.active))
           => /\ readingsData' = readingsData
              /\ readingsError' = readingsError
              /\ \A i \in DOMAIN snapshot' : snapshot'[i].latest = << >> ]_vars
  /\ [][ (~readingsData.defined /\ readingsData'.defined)
           => /\ fetch.active
              /\ NoError(fetch.results)
              /\ readingsData'.value = LatestById(fetch.results, Len(fetch.results)) ]_vars

\* C24 witness: the channel is open with the device list loaded, the first
\* refresh is in flight and read the table before a listed device's row was
\* inserted, and the event of that row is deliverable.
C24_Witness ==
  /\ subscriptionRef.current
  /\ subscriptionRef.captured
  /\ ~readingsData.defined
  /\ fetch.active
  /\ \E e \in UpsertEvents :
       /\ e.new \in store
       /\ e.new.device_id \in KnownIds
       /\ \A i \in DOMAIN fetch.results : fetch.results[i].data # << e.new >>

====
